---- MODULE Spec2Model ----
(***************************************************************************)
(* discord-embed-checker: the embed validator (checkJSON), its primitive   *)
(* validators, the image prober with its memo cache (checkImage,           *)
(* checkedImageLinks) and the input listener that renders the report.      *)
(*                                                                         *)
(* Two variants of the script live in the repository:                      *)
(*   src/script.js         asynchronous checkJSON with image probing       *)
(*   src/unnamed/part_000  the earlier synchronous checkJSON               *)
(* Definitions of the earlier variant carry the suffix 0.                  *)
(*                                                                         *)
(* Texts and JSON strings are sequences of one-character strings; report   *)
(* messages are TLA+ strings.                                              *)
(***************************************************************************)
EXTENDS Integers, Sequences, FiniteSets, TLC

(***************************************************************************)
(* JavaScript values as they come out of JSON.parse                        *)
(***************************************************************************)
Undefined == [t |-> "undefined"]
Null      == [t |-> "null"]
Bool(b)   == [t |-> "bool", b |-> b]
Num(n)    == [t |-> "num", n |-> n]
Str(s)    == [t |-> "str", s |-> s]
Arr(a)    == [t |-> "arr", a |-> a]
\* an object keeps its members in insertion order: <<[k |-> key, v |-> value], ...>>
Obj(m)    == [t |-> "obj", m |-> m]

\* ToBoolean(v): the values `!v` negates
Truthy(v) ==
    CASE v.t = "undefined" -> FALSE
      [] v.t = "null"      -> FALSE
      [] v.t = "bool"      -> v.b
      [] v.t = "num"       -> v.n # 0
      [] v.t = "str"       -> v.s # <<>>
      [] OTHER             -> TRUE

\* typeof v == 'object'
TypeofObject(v) == v.t \in {"null", "arr", "obj"}

\* v[key] for a member name: only objects of JSON.parse own such members
Get(v, key) ==
    IF v.t = "obj" /\ \E i \in 1..Len(v.m) : v.m[i].k = key
    THEN v.m[CHOOSE i \in 1..Len(v.m) : v.m[i].k = key].v
    ELSE Undefined

\* v.length: arrays and strings have one, an object only as a member
Length(v) ==
    CASE v.t = "arr" -> Num(Len(v.a))
      [] v.t = "str" -> Num(Len(v.s))
      [] OTHER       -> Get(v, <<"l", "e", "n", "g", "t", "h">>)

\* Object.keys(v)
ObjectKeys(v) ==
    CASE v.t = "obj" -> [i \in 1..Len(v.m) |-> v.m[i].k]
      [] v.t = "arr" -> [i \in 1..Len(v.a) |-> <<ToString(i - 1)>>]
      [] v.t = "str" -> [i \in 1..Len(v.s) |-> <<ToString(i - 1)>>]
      [] OTHER       -> <<>>

\* a sequence of characters as one string, for the report messages
RECURSIVE Text(_)
Text(cs) == IF cs = <<>> THEN "" ELSE Head(cs) \o Text(Tail(cs))

(***************************************************************************)
(* JSON.parse, on the grammar of RFC 8259 without fractions, exponents and *)
(* the escapes \b \f \uXXXX (no input of the model uses them)              *)
(***************************************************************************)
WS     == {" ", "\n", "\t", "\r"}
Digits == {"0", "1", "2", "3", "4", "5", "6", "7", "8", "9"}

DigitVal(c) ==
    CASE c = "0" -> 0 [] c = "1" -> 1 [] c = "2" -> 2 [] c = "3" -> 3
      [] c = "4" -> 4 [] c = "5" -> 5 [] c = "6" -> 6 [] c = "7" -> 7
      [] c = "8" -> 8 [] c = "9" -> 9

RECURSIVE DecVal(_)
DecVal(ds) ==
    IF ds = <<>> THEN 0
    ELSE DecVal(SubSeq(ds, 1, Len(ds) - 1)) * 10 + DigitVal(ds[Len(ds)])

Fail     == [ok |-> FALSE, v |-> Undefined, p |-> 0]
Ok(v, p) == [ok |-> TRUE, v |-> v, p |-> p]

\* the first position from i on that holds no character of set, Len(s)+1 if none
SkipIn(s, i, set) ==
    CHOOSE j \in i..(Len(s) + 1) :
        /\ (j = Len(s) + 1 \/ s[j] \notin set)
        /\ \A k \in i..(j - 1) : s[k] \in set

SkipWs(s, i) == SkipIn(s, i, WS)

StartsWith(s, i, lit) ==
    /\ i + Len(lit) - 1 <= Len(s)
    /\ \A k \in 1..Len(lit) : s[i + k - 1] = lit[k]

\* the number of backslashes right before position j, not reaching back to i
BackslashRun(s, i, j) ==
    CHOOSE m \in 0..(j - i - 1) :
        /\ \A q \in 1..m : s[j - q] = "\\"
        /\ (m = j - i - 1 \/ s[j - m - 1] # "\\")

ClosingQuote(s, i, j) == s[j] = "\"" /\ BackslashRun(s, i, j) % 2 = 0

EscapeOf(c) ==
    CASE c = "n" -> "\n" [] c = "t" -> "\t" [] c = "r" -> "\r" [] OTHER -> c

RECURSIVE Unescape(_)
Unescape(b) ==
    IF b = <<>> THEN [ok |-> TRUE, s |-> <<>>]
    ELSE IF Head(b) # "\\"
    THEN LET r == Unescape(Tail(b))
         IN  [ok |-> r.ok, s |-> <<Head(b)>> \o r.s]
    ELSE IF Len(b) < 2 \/ b[2] \notin {"\"", "\\", "/", "n", "t", "r"}
    THEN [ok |-> FALSE, s |-> <<>>]
    ELSE LET r == Unescape(SubSeq(b, 3, Len(b)))
         IN  [ok |-> r.ok, s |-> <<EscapeOf(b[2])>> \o r.s]

\* s[i] is the opening quote
ParseString(s, i) ==
    LET close == CHOOSE j \in (i + 1)..(Len(s) + 1) :
                    /\ (j = Len(s) + 1 \/ ClosingQuote(s, i, j))
                    /\ \A k \in (i + 1)..(j - 1) : ~ClosingQuote(s, i, k)
        body  == SubSeq(s, i + 1, close - 1)
    IN  IF close > Len(s) THEN Fail
        ELSE IF \E k \in 1..Len(body) : body[k] \in {"\n", "\t", "\r"} THEN Fail
        ELSE IF \A k \in 1..Len(body) : body[k] # "\\" THEN Ok(Str(body), close + 1)
        ELSE LET u == Unescape(body)
             IN  IF u.ok THEN Ok(Str(u.s), close + 1) ELSE Fail

\* s[i] is a digit or the minus sign
ParseNumber(s, i) ==
    LET neg == s[i] = "-"
        st  == IF neg THEN i + 1 ELSE i
        e   == SkipIn(s, st, Digits)
    IN  IF e = st THEN Fail
        ELSE IF e - st > 1 /\ s[st] = "0" THEN Fail
        ELSE IF e <= Len(s) /\ s[e] \in {".", "e", "E"} THEN Fail
        ELSE Ok(Num((IF neg THEN -1 ELSE 1) * DecVal(SubSeq(s, st, e - 1))), e)

\* a later duplicate of a key replaces the value and keeps the first position
PutMember(m, key, val) ==
    IF \E i \in 1..Len(m) : m[i].k = key
    THEN [i \in 1..Len(m) |-> IF m[i].k = key THEN [k |-> key, v |-> val] ELSE m[i]]
    ELSE Append(m, [k |-> key, v |-> val])

RECURSIVE ParseValue(_, _), ParseElements(_, _, _), ParseMembers(_, _, _)
ParseValue(s, i0) ==
    LET i == SkipWs(s, i0)
    IN  IF i > Len(s) THEN Fail
        ELSE CASE s[i] = "{" ->
                    LET j == SkipWs(s, i + 1)
                    IN  IF j <= Len(s) /\ s[j] = "}" THEN Ok(Obj(<<>>), j + 1)
                        ELSE ParseMembers(s, j, <<>>)
               [] s[i] = "[" ->
                    LET j == SkipWs(s, i + 1)
                    IN  IF j <= Len(s) /\ s[j] = "]" THEN Ok(Arr(<<>>), j + 1)
                        ELSE ParseElements(s, j, <<>>)
               [] s[i] = "\"" -> ParseString(s, i)
               [] s[i] \in Digits \cup {"-"} -> ParseNumber(s, i)
               [] StartsWith(s, i, <<"t", "r", "u", "e">>) -> Ok(Bool(TRUE), i + 4)
               [] StartsWith(s, i, <<"f", "a", "l", "s", "e">>) -> Ok(Bool(FALSE), i + 5)
               [] StartsWith(s, i, <<"n", "u", "l", "l">>) -> Ok(Null, i + 4)
               [] OTHER -> Fail

\* i is where an element starts
ParseElements(s, i, acc) ==
    LET r == ParseValue(s, i)
        j == SkipWs(s, r.p)
    IN  IF ~r.ok THEN Fail
        ELSE IF j > Len(s) THEN Fail
        ELSE IF s[j] = "," THEN ParseElements(s, j + 1, Append(acc, r.v))
        ELSE IF s[j] = "]" THEN Ok(Arr(Append(acc, r.v)), j + 1)
        ELSE Fail

\* i is where a member's key starts
ParseMembers(s, i, acc) ==
    IF i > Len(s) \/ s[i] # "\"" THEN Fail
    ELSE LET key == ParseString(s, i)
             c   == SkipWs(s, key.p)
             r   == ParseValue(s, c + 1)
             j   == SkipWs(s, r.p)
         IN  IF ~key.ok THEN Fail
             ELSE IF c > Len(s) \/ s[c] # ":" THEN Fail
             ELSE IF ~r.ok THEN Fail
             ELSE IF j > Len(s) THEN Fail
             ELSE IF s[j] = ","
             THEN ParseMembers(s, SkipWs(s, j + 1), PutMember(acc, key.v.s, r.v))
             ELSE IF s[j] = "}" THEN Ok(Obj(PutMember(acc, key.v.s, r.v)), j + 1)
             ELSE Fail

\* JSON.parse(text): ok is FALSE where it throws a SyntaxError
JSONparse(text) ==
    LET r == ParseValue(text, 1)
    IN  IF r.ok /\ SkipWs(text, r.p) > Len(text)
        THEN [ok |-> TRUE, v |-> r.v]
        ELSE [ok |-> FALSE, v |-> Undefined]

(***************************************************************************)
(* Member names                                                            *)
(***************************************************************************)
K_title == <<"t", "i", "t", "l", "e">>
K_type == <<"t", "y", "p", "e">>
K_description == <<"d", "e", "s", "c", "r", "i", "p", "t", "i", "o", "n">>
K_url == <<"u", "r", "l">>
K_timestamp == <<"t", "i", "m", "e", "s", "t", "a", "m", "p">>
K_color == <<"c", "o", "l", "o", "r">>
K_footer == <<"f", "o", "o", "t", "e", "r">>
K_image == <<"i", "m", "a", "g", "e">>
K_thumbnail == <<"t", "h", "u", "m", "b", "n", "a", "i", "l">>
K_author == <<"a", "u", "t", "h", "o", "r">>
K_fields == <<"f", "i", "e", "l", "d", "s">>
K_text == <<"t", "e", "x", "t">>
K_icon_url == <<"i", "c", "o", "n", "_", "u", "r", "l">>
K_name == <<"n", "a", "m", "e">>
K_value == <<"v", "a", "l", "u", "e">>
K_inline == <<"i", "n", "l", "i", "n", "e">>

\* script.js: the top-level keys that draw no warning
validKeys ==
    <<K_title, K_type, K_description, K_url, K_timestamp, K_color, K_footer,
      K_image, K_thumbnail, K_author, K_fields>>

(***************************************************************************)
(* Primitive validators                                                    *)
(***************************************************************************)
LowerLetters ==
    {"a", "b", "c", "d", "e", "f", "g", "h", "i", "j", "k", "l", "m",
     "n", "o", "p", "q", "r", "s", "t", "u", "v", "w", "x", "y", "z"}
UpperLetters ==
    {"A", "B", "C", "D", "E", "F", "G", "H", "I", "J", "K", "L", "M",
     "N", "O", "P", "Q", "R", "S", "T", "U", "V", "W", "X", "Y", "Z"}
LowerSeq == <<"a", "b", "c", "d", "e", "f", "g", "h", "i", "j", "k", "l", "m",
              "n", "o", "p", "q", "r", "s", "t", "u", "v", "w", "x", "y", "z">>
UpperSeq == <<"A", "B", "C", "D", "E", "F", "G", "H", "I", "J", "K", "L", "M",
              "N", "O", "P", "Q", "R", "S", "T", "U", "V", "W", "X", "Y", "Z">>
ToLower(c) ==
    IF c \in UpperLetters
    THEN LowerSeq[CHOOSE i \in 1..26 : UpperSeq[i] = c]
    ELSE c
LowerCase(s) == [i \in 1..Len(s) |-> ToLower(s[i])]
AlNum == LowerLetters \cup Digits

\* the first position from i on that holds a character of set, Len(s)+1 if none
FindIn(s, i, set) ==
    CHOOSE j \in i..(Len(s) + 1) :
        /\ (j = Len(s) + 1 \/ s[j] \in set)
        /\ \A k \in i..(j - 1) : s[k] \notin set

\* the last position of s that holds c, 0 if none
LastIndexOf(s, c) ==
    CHOOSE j \in 0..Len(s) :
        /\ (j = 0 \/ s[j] = c)
        /\ \A k \in (j + 1)..Len(s) : s[k] # c

\* code points a host may not hold (WHATWG URL, forbidden host code points)
ForbiddenHost == {" ", "#", "/", "<", ">", "?", "@", "[", "\\", "]", "^", "|", "%"}

\* the text without its leading and trailing spaces
TrimSpaces(url) ==
    LET a == SkipIn(url, 1, {" "})
        b == CHOOSE j \in 0..Len(url) :
                /\ (j = 0 \/ url[j] # " ")
                /\ \A k \in (j + 1)..Len(url) : url[k] = " "
    IN  IF a > b THEN <<>> ELSE SubSeq(url, a, b)

\* the scheme of s, lowercased: what stands before its first colon
SchemeOf(s) == LowerCase(SubSeq(s, 1, FindIn(s, 1, {":"}) - 1))

HasScheme(s) == FindIn(s, 1, {":"}) <= Len(s)

ValidScheme(scheme) ==
    /\ scheme # <<>>
    /\ scheme[1] \in LowerLetters
    /\ \A k \in 1..Len(scheme) : scheme[k] \in AlNum \cup {"+", "-", "."}

\* the authority of a special URL: slashes after the colon are skipped
AuthorityOf(s) ==
    LET h0 == SkipIn(s, FindIn(s, 1, {":"}) + 1, {"/", "\\"})
    IN  SubSeq(s, h0, FindIn(s, h0, {"/", "\\", "?", "#"}) - 1)

\* the authority without its credentials
HostPortOf(auth) == SubSeq(auth, LastIndexOf(auth, "@") + 1, Len(auth))

ValidHost(host) ==
    /\ host # <<>>
    /\ \A k \in 1..Len(host) : host[k] \notin ForbiddenHost

ValidPort(port) ==
    /\ \A k \in 1..Len(port) : port[k] \in Digits
    /\ Len(port) <= 5
    /\ (port # <<>> => DecVal(port) <= 65535)

ValidHostPort(hp) ==
    LET pc == LastIndexOf(hp, ":")
    IN  IF pc = 0 THEN ValidHost(hp)
        ELSE ValidHost(SubSeq(hp, 1, pc - 1)) /\ ValidPort(SubSeq(hp, pc + 1, Len(hp)))

Special(scheme) == scheme \in {<<"h", "t", "t", "p">>, <<"h", "t", "t", "p", "s">>}

\* new URL(url) without a base, on the trimmed text s: does it parse, and
\* with which protocol.  The scheme is lowercased; a special scheme (http,
\* https) needs a host, and a port is digits up to 65535.
ParseURL(s) ==
    [ok       |-> /\ HasScheme(s)
                  /\ ValidScheme(SchemeOf(s))
                  /\ (Special(SchemeOf(s)) => ValidHostPort(HostPortOf(AuthorityOf(s)))),
     protocol |-> SchemeOf(s) \o <<":">>]

\* new URL(url): the parse of the trimmed text (bound once, as a value)
NewURL(url) == CHOOSE urlobj \in {ParseURL(s) : s \in {TrimSpaces(url)}} : TRUE

\* lines 202-208, on the outcome of new URL(url)
AcceptedURL(urlobj) ==
    IF ~urlobj.ok THEN FALSE
    ELSE IF urlobj.protocol \notin
               {<<"h", "t", "t", "p", ":">>, <<"h", "t", "t", "p", "s", ":">>}
    THEN FALSE
    ELSE TRUE

\* script.js isValidURL
isValidURL(url) ==
    IF ~Truthy(url) THEN TRUE
    ELSE IF url.t # "str" THEN FALSE
    ELSE AcceptedURL(NewURL(url.s))

\* the host of the earlier variant's pattern: a domain name
\*   (([a-z\d]([a-z\d-]*[a-z\d])*)\.)+[a-z]{2,}
DomainName(h) ==
    LET ld == LastIndexOf(h, ".")
    IN  /\ ld > 1
        /\ Len(h) - ld >= 2
        /\ \A k \in (ld + 1)..Len(h) : h[k] \in LowerLetters
        /\ h[1] \in AlNum
        /\ \A k \in 1..ld :
             /\ h[k] \in AlNum \cup {"-", "."}
             /\ (h[k] = "." => h[k - 1] \in AlNum)
             /\ (h[k] = "." /\ k < ld => h[k + 1] \in AlNum)

\* or an IPv4 address  (\d{1,3}\.){3}\d{1,3}
IPv4(h) ==
    LET dots == {k \in 1..Len(h) : h[k] = "."}
    IN  /\ Cardinality(dots) = 3
        /\ \A k \in 1..Len(h) : h[k] \in Digits \cup {"."}
        /\ h # <<>> /\ h[1] # "." /\ h[Len(h)] # "."
        /\ \A k \in 1..(Len(h) - 1) : ~(h[k] = "." /\ h[k + 1] = ".")
        /\ \A k \in 1..(Len(h) - 3) :
             ~(\A q \in 0..3 : h[k + q] \in Digits)

\* the optional parts of the pattern after the host, from position p on:
\*   (\:\d+)?  (\/[-a-z\d%_.~+]*)*  (\?[;&a-z\d%_.~+=-]*)?  (\#[-a-z\d_]*)?
AfterPort(s, p) ==
    IF p <= Len(s) /\ s[p] = ":" THEN SkipIn(s, p + 1, Digits) ELSE p
PortOk(s, p) == (p <= Len(s) /\ s[p] = ":") => AfterPort(s, p) > p + 1
AfterPath(s, p) ==
    IF p <= Len(s) /\ s[p] = "/"
    THEN SkipIn(s, p, AlNum \cup {"-", "%", "_", ".", "~", "+", "/"})
    ELSE p
AfterQuery(s, p) ==
    IF p <= Len(s) /\ s[p] = "?"
    THEN SkipIn(s, p + 1, AlNum \cup {";", "&", "%", "_", ".", "~", "+", "=", "-"})
    ELSE p
AfterFragment(s, p) ==
    IF p <= Len(s) /\ s[p] = "#" THEN SkipIn(s, p + 1, AlNum \cup {"-", "_"}) ELSE p

\* where the host starts: after the optional (https?:\/\/)
HostStart(s) ==
    IF StartsWith(s, 1, <<"h", "t", "t", "p", ":", "/", "/">>) THEN 8
    ELSE IF StartsWith(s, 1, <<"h", "t", "t", "p", "s", ":", "/", "/">>) THEN 9
    ELSE 1

\* the pattern from the host on: the host ends at p1
MatchesFrom(s, p0, p1) ==
    /\ (DomainName(SubSeq(s, p0, p1 - 1)) \/ IPv4(SubSeq(s, p0, p1 - 1)))
    /\ PortOk(s, p1)
    /\ AfterFragment(s, AfterQuery(s, AfterPath(s, AfterPort(s, p1)))) = Len(s) + 1

\* the pattern of part_000 lines 143-151, on the lowercased text
MatchesPattern(s) == MatchesFrom(s, HostStart(s), FindIn(s, HostStart(s), {":", "/", "?", "#"}))

\* part_000 isValidURL: the pattern, case-insensitive
isValidURL0(url) ==
    IF url.t # "str" THEN FALSE
    ELSE MatchesPattern(LowerCase(url.s))

RECURSIVE DigitsOf(_)
DigitsOf(n) ==
    IF n < 10 THEN <<ToString(n)>> ELSE DigitsOf(n \div 10) \o <<ToString(n % 10)>>

RECURSIVE JoinComma(_)
\* String(v), the coercion RegExp.prototype.test applies to its argument
ToStringJS(v) ==
    CASE v.t = "str"  -> v.s
      [] v.t = "num"  -> IF v.n < 0 THEN <<"-">> \o DigitsOf(-v.n) ELSE DigitsOf(v.n)
      [] v.t = "bool" -> IF v.b THEN <<"t", "r", "u", "e">> ELSE <<"f", "a", "l", "s", "e">>
      [] v.t = "null" -> <<"n", "u", "l", "l">>
      [] v.t = "arr"  -> JoinComma(v.a)
      [] v.t = "obj"  -> <<"[", "o", "b", "j", "e", "c", "t", " ", "O", "b", "j", "e", "c", "t", "]">>
      [] OTHER        -> <<"u", "n", "d", "e", "f", "i", "n", "e", "d">>
JoinComma(a) ==
    IF a = <<>> THEN <<>>
    ELSE LET h == IF a[1].t \in {"null", "undefined"} THEN <<>> ELSE ToStringJS(a[1])
         IN  IF Len(a) = 1 THEN h ELSE h \o <<",">> \o JoinComma(Tail(a))

\* isISODate: /^\d{4}-\d{2}-\d{2}T\d{2}:\d{2}:\d{2}(\.\d{3})?Z$/
isISODate(date) ==
    LET s == ToStringJS(date)
        D(k) == s[k] \in Digits
    IN  /\ Len(s) \in {20, 24}
        /\ D(1) /\ D(2) /\ D(3) /\ D(4) /\ s[5] = "-"
        /\ D(6) /\ D(7) /\ s[8] = "-"
        /\ D(9) /\ D(10) /\ s[11] = "T"
        /\ D(12) /\ D(13) /\ s[14] = ":"
        /\ D(15) /\ D(16) /\ s[17] = ":"
        /\ D(18) /\ D(19)
        /\ (Len(s) = 24 => s[20] = "." /\ D(21) /\ D(22) /\ D(23))
        /\ s[Len(s)] = "Z"

MaxColor == 16777215

\* isValidColor
isValidColor(color) == color.t = "num" /\ color.n >= 0 /\ color.n <= MaxColor

\* a % b of JavaScript: the remainder takes the sign of a
JsRem(a, b) == IF a >= 0 THEN a % b ELSE -((-a) % b)

suffixes == <<"th", "st", "nd", "rd">>

\* ordinal: suffixes[(value - 20) % 10] || suffixes[value] || suffixes[0];
\* an index outside 0..3 reads undefined, and -0 reads index 0
ordinal(number) ==
    LET value == JsRem(number, 100)
        i     == JsRem(value - 20, 10)
    IN  ToString(number) \o
          (IF i \in 0..3 THEN suffixes[i + 1]
           ELSE IF value \in 0..3 THEN suffixes[value + 1]
           ELSE suffixes[1])

\* isStringEmpty: only spaces and newlines are stripped
isStringEmpty(string) ==
    IF ~Truthy(string) \/ string.t # "str" THEN TRUE
    ELSE \A k \in 1..Len(string.s) : string.s[k] \in {" ", "\n"}

\* the null that getStringErrors returns and checkJSON filters out
NoError == "<null>"

\* getStringErrors(string, prefix, allowEmpty, maxLength)
getStringErrors(string, prefix, allowEmpty, maxLength) ==
    IF allowEmpty /\ ~Truthy(string) THEN NoError
    ELSE IF ~Truthy(string) \/ (~allowEmpty /\ isStringEmpty(string))
    THEN prefix \o " is empty"
    ELSE IF string.t # "str" THEN prefix \o " is not a string"
    ELSE IF maxLength # 0 /\ Len(string.s) > maxLength
    THEN prefix \o " is too long (>" \o ToString(maxLength) \o " characters)"
    ELSE NoError

\* errors.filter(x => x !== null)
FilterNull(list) == SelectSeq(list, LAMBDA x : x # NoError)

(***************************************************************************)
(* Number coercion for the comparisons of checkJSON                        *)
(***************************************************************************)
NaN == [nan |-> TRUE, n |-> 0]
Finite(n) == [nan |-> FALSE, n |-> n]

\* the number a text without surrounding white space reads as
NumberOfTrimmed(r) ==
    IF r = <<>> THEN Finite(0)
    ELSE IF \A k \in 1..Len(r) : r[k] \in Digits THEN Finite(DecVal(r))
    ELSE IF Len(r) > 1 /\ r[1] = "-" /\ \A k \in 2..Len(r) : r[k] \in Digits
    THEN Finite(-DecVal(Tail(r)))
    ELSE NaN

\* the text without its leading and trailing white space
TrimWs(cs) ==
    LET a == SkipIn(cs, 1, WS)
        b == CHOOSE j \in 0..Len(cs) :
                /\ (j = 0 \/ cs[j] \notin WS)
                /\ \A k \in (j + 1)..Len(cs) : cs[k] \in WS
    IN  IF a > b THEN <<>> ELSE SubSeq(cs, a, b)

\* Number(v) for the values JSON.parse yields (integers only)
ToNumber(v) ==
    CASE v.t = "num"  -> Finite(v.n)
      [] v.t = "bool" -> Finite(IF v.b THEN 1 ELSE 0)
      [] v.t = "null" -> Finite(0)
      [] v.t = "str"  -> NumberOfTrimmed(TrimWs(v.s))
      [] v.t = "arr"  -> NumberOfTrimmed(TrimWs(ToStringJS(v)))
      [] OTHER        -> NaN

\* v === 0
StrictlyZero(v) == v.t = "num" /\ v.n = 0

\* v > n
GreaterThan(x, n) == ~x.nan /\ x.n > n
JsGreater(v, n) == GreaterThan(ToNumber(v), n)

(***************************************************************************)
(* script.js checkJSON, cut at its awaits of checkImage                    *)
(***************************************************************************)
MaxTitle       == 256
MaxDescription == 4096
MaxFooter      == 2048
MaxAuthorName  == 256
MaxFieldName   == 256
MaxFieldValue  == 1024
MaxFields      == 25
MaxJSONLength  == 6000

\* lines 37-41: the result of the short circuit
InvalidResult == [warnings |-> <<>>, errors |-> <<"JSON is invalid">>]

\* lines 56-71: title, description, url, timestamp, color
HeadErrors(json) ==
    LET title == Get(json, K_title)
        description == Get(json, K_description)
        url == Get(json, K_url)
        timestamp == Get(json, K_timestamp)
        color == Get(json, K_color)
    IN  <<getStringErrors(title, "Title", TRUE, MaxTitle),
          getStringErrors(description, "Description", TRUE, MaxDescription)>>
        \o (IF Truthy(url) /\ ~isValidURL(url) THEN <<"URL is invalid">> ELSE <<>>)
        \o (IF Truthy(timestamp) /\ ~isISODate(timestamp)
            THEN <<"Timestamp is invalid">> ELSE <<>>)
        \o (IF Truthy(color) /\ ~isValidColor(color) THEN <<"Color is invalid">> ELSE <<>>)

HeadWarnings(json) ==
    IF isStringEmpty(Get(json, K_title)) /\ Truthy(Get(json, K_url))
    THEN <<"URL will not be shown if there is no title">>
    ELSE <<>>

\* the four blocks that await checkImage, in program order
Stages == <<"footer", "image", "thumbnail", "author">>
StageIndex(stage) == CHOOSE i \in 1..Len(Stages) : Stages[i] = stage

\* the member a block inspects
StageValue(stage, json) ==
    CASE stage = "footer"    -> Get(json, K_footer)
      [] stage = "image"     -> Get(json, K_image)
      [] stage = "thumbnail" -> Get(json, K_thumbnail)
      [] stage = "author"    -> Get(json, K_author)

NotAnObject(stage) ==
    CASE stage = "footer"    -> "Footer is not an object"
      [] stage = "image"     -> "Image is not an object"
      [] stage = "thumbnail" -> "Thumbnail is not an object"
      [] stage = "author"    -> "Author is not an object"

\* the arguments of the block's checkImage call
ProbeUrl(stage, o) ==
    IF stage \in {"footer", "author"} THEN Get(o, K_icon_url) ELSE Get(o, K_url)
ProbePrefix(stage) ==
    CASE stage = "footer"    -> "Footer icon"
      [] stage = "image"     -> "Image"
      [] stage = "thumbnail" -> "Thumbnail"
      [] stage = "author"    -> "Author icon"

\* what the block pushes to errors before its await
ErrorsBefore(stage, o) ==
    CASE stage = "footer" -> <<getStringErrors(Get(o, K_text), "Footer", TRUE, MaxFooter)>>
      [] stage = "author" ->
            <<getStringErrors(Get(o, K_name), "Author name", TRUE, MaxAuthorName)>>
            \o (IF ~isValidURL(Get(o, K_url))
                THEN <<"Author has an invalid URL">> ELSE <<>>)
      [] OTHER -> <<>>

\* what the block pushes to warnings after res was handled
WarningsAfter(stage, o) ==
    CASE stage = "footer" ->
            IF isStringEmpty(Get(o, K_text)) /\ Truthy(Get(o, K_icon_url))
            THEN <<"Footer icon will not be shown without text">> ELSE <<>>
      [] stage = "author" ->
            IF /\ isStringEmpty(Get(o, K_name))
               /\ (Truthy(Get(o, K_url)) \/ Truthy(Get(o, K_icon_url)))
            THEN <<"Author URL and icon will not be shown without a name">> ELSE <<>>
      [] OTHER -> <<>>

\* lines 136-163: the callback of fields.forEach
FieldErrors(field, index) ==
    IF ~Truthy(field) THEN <<ordinal(index + 1) \o " field is empty">>
    ELSE IF ~TypeofObject(field) THEN <<ordinal(index + 1) \o " field is not an object">>
    ELSE <<getStringErrors(Get(field, K_name), ordinal(index + 1) \o " field's name",
                           FALSE, MaxFieldName),
           getStringErrors(Get(field, K_value), ordinal(index + 1) \o " field's value",
                           FALSE, MaxFieldValue)>>
         \o (IF Get(field, K_inline).t \notin {"undefined", "bool"}
             THEN <<ordinal(index + 1) \o " field inline is not a boolean">>
             ELSE <<>>)

RECURSIVE ForEachField(_, _)
\* the pushes of fields.forEach from 0-based index on
ForEachField(a, index) ==
    IF index >= Len(a) THEN <<>>
    ELSE FieldErrors(a[index + 1], index) \o ForEachField(a, index + 1)

\* lines 131-178: fields, no content, length
TailErrors(json, length) ==
    LET title == Get(json, K_title)
        description == Get(json, K_description)
        footer == Get(json, K_footer)
        author == Get(json, K_author)
        fields == Get(json, K_fields)
    IN  (IF Truthy(fields) /\ fields.t # "arr" THEN <<"Fields is not an array">> ELSE <<>>)
        \o (IF Truthy(fields) /\ JsGreater(Length(fields), MaxFields)
            THEN <<"Too many fields (>25)">> ELSE <<>>)
        \o (IF Truthy(fields) /\ fields.t = "arr" THEN ForEachField(fields.a, 0) ELSE <<>>)
        \o (IF /\ isStringEmpty(title)
               /\ isStringEmpty(description)
               /\ (~Truthy(author) \/ isStringEmpty(Get(author, K_name)))
               /\ (~Truthy(footer) \/ isStringEmpty(Get(footer, K_text)))
               /\ (~Truthy(fields) \/ StrictlyZero(Length(fields)))
            THEN <<"No content (title, description, author, footer, or fields).">>
            ELSE <<>>)
        \o (IF length > MaxJSONLength THEN <<"JSON is too long (>6000 characters)">>
            ELSE <<>>)

\* lines 180-183: the warnings for unknown top-level keys
KeyWarnings(json) ==
    LET keys == ObjectKeys(json)
        IsValid(key) == \E i \in 1..Len(validKeys) : validKeys[i] = key
        unknown == SelectSeq(keys, LAMBDA key : ~IsValid(key))
    IN  [i \in 1..Len(unknown) |-> "\"" \o Text(unknown[i]) \o "\" is not a valid key"]

(***************************************************************************)
(* The texts the user may leave in the input element                       *)
(***************************************************************************)
\* the empty text
In_Empty ==
    <<>>

\* a space and a newline
In_Blank ==
    <<" ", "\n">>

\* a tab
In_Tab ==
    <<"\t">>

\* {
In_OpenBrace ==
    <<"{">>

\* {"title":"Hi",}
In_TrailingComma ==
    <<"{", "\"", "t", "i", "t", "l", "e", "\"", ":", "\"", "H", "i", "\"", ",", "}">>

\* null
In_NullText ==
    <<"n", "u", "l", "l">>

\* 0
In_ZeroText ==
    <<"0">>

\* {}
In_EmptyObject ==
    <<"{", "}">>

\* {"title":"Hi"}
In_TitleHi ==
    <<"{", "\"", "t", "i", "t", "l", "e", "\"", ":", "\"", "H", "i", "\"", "}">>

\* {"url":"http://e.co"}
In_UrlOnly ==
    <<"{", "\"", "u", "r", "l", "\"", ":", "\"", "h", "t", "t", "p", ":", "/", "/",
      "e", ".", "c", "o", "\"", "}">>

\* {"foo":1}
In_Foo ==
    <<"{", "\"", "f", "o", "o", "\"", ":", "1", "}">>

\* {"color":99999999}
In_BadColor ==
    <<"{", "\"", "c", "o", "l", "o", "r", "\"", ":", "9", "9", "9", "9", "9", "9", "9",
      "9", "}">>

\* {"fields":[{"name":"","value":"x"}]}
In_FieldNoName ==
    <<"{", "\"", "f", "i", "e", "l", "d", "s", "\"", ":", "[", "{", "\"", "n", "a",
      "m", "e", "\"", ":", "\"", "\"", ",", "\"", "v", "a", "l", "u", "e", "\"", ":",
      "\"", "x", "\"", "}", "]", "}">>

\* {"fields":[null]}
In_FieldNull ==
    <<"{", "\"", "f", "i", "e", "l", "d", "s", "\"", ":", "[", "n", "u", "l", "l", "]",
      "}">>

\* {"fields":[{"name":5,"value":"\n ","inline":1}]}
In_FieldOdd ==
    <<"{", "\"", "f", "i", "e", "l", "d", "s", "\"", ":", "[", "{", "\"", "n", "a",
      "m", "e", "\"", ":", "5", ",", "\"", "v", "a", "l", "u", "e", "\"", ":", "\"",
      "\\", "n", " ", "\"", ",", "\"", "i", "n", "l", "i", "n", "e", "\"", ":", "1",
      "}", "]", "}">>

\* {"image":{"url":"http://a.io"}}
In_ImageA ==
    <<"{", "\"", "i", "m", "a", "g", "e", "\"", ":", "{", "\"", "u", "r", "l", "\"",
      ":", "\"", "h", "t", "t", "p", ":", "/", "/", "a", ".", "i", "o", "\"", "}",
      "}">>

\* {"title":"T","image":{"url":"http://a.io"},"thumbnail":{"url":"http://a.io"}}
In_ImageTwice ==
    <<"{", "\"", "t", "i", "t", "l", "e", "\"", ":", "\"", "T", "\"", ",", "\"", "i",
      "m", "a", "g", "e", "\"", ":", "{", "\"", "u", "r", "l", "\"", ":", "\"", "h",
      "t", "t", "p", ":", "/", "/", "a", ".", "i", "o", "\"", "}", ",", "\"", "t", "h",
      "u", "m", "b", "n", "a", "i", "l", "\"", ":", "{", "\"", "u", "r", "l", "\"",
      ":", "\"", "h", "t", "t", "p", ":", "/", "/", "a", ".", "i", "o", "\"", "}",
      "}">>

\* {"footer":{"icon_url":"http://a.io"},"author":{"icon_url":"http://b.io","url":"ftp://x"}}
In_FooterAuthor ==
    <<"{", "\"", "f", "o", "o", "t", "e", "r", "\"", ":", "{", "\"", "i", "c", "o",
      "n", "_", "u", "r", "l", "\"", ":", "\"", "h", "t", "t", "p", ":", "/", "/", "a",
      ".", "i", "o", "\"", "}", ",", "\"", "a", "u", "t", "h", "o", "r", "\"", ":",
      "{", "\"", "i", "c", "o", "n", "_", "u", "r", "l", "\"", ":", "\"", "h", "t",
      "t", "p", ":", "/", "/", "b", ".", "i", "o", "\"", ",", "\"", "u", "r", "l",
      "\"", ":", "\"", "f", "t", "p", ":", "/", "/", "x", "\"", "}", "}">>

\* {"title":"T","image":{"url":5},"thumbnail":{"url":"nope"}}
In_BadImages ==
    <<"{", "\"", "t", "i", "t", "l", "e", "\"", ":", "\"", "T", "\"", ",", "\"", "i",
      "m", "a", "g", "e", "\"", ":", "{", "\"", "u", "r", "l", "\"", ":", "5", "}",
      ",", "\"", "t", "h", "u", "m", "b", "n", "a", "i", "l", "\"", ":", "{", "\"",
      "u", "r", "l", "\"", ":", "\"", "n", "o", "p", "e", "\"", "}", "}">>

\* {"title":"T","footer":[],"color":false,"author":7}
In_OddShapes ==
    <<"{", "\"", "t", "i", "t", "l", "e", "\"", ":", "\"", "T", "\"", ",", "\"", "f",
      "o", "o", "t", "e", "r", "\"", ":", "[", "]", ",", "\"", "c", "o", "l", "o", "r",
      "\"", ":", "f", "a", "l", "s", "e", ",", "\"", "a", "u", "t", "h", "o", "r",
      "\"", ":", "7", "}">>

\* {"title":"T","timestamp":"2020-01-01T00:00:00Z","color":16777215,"fields":[]}
In_Stamped ==
    <<"{", "\"", "t", "i", "t", "l", "e", "\"", ":", "\"", "T", "\"", ",", "\"", "t",
      "i", "m", "e", "s", "t", "a", "m", "p", "\"", ":", "\"", "2", "0", "2", "0", "-",
      "0", "1", "-", "0", "1", "T", "0", "0", ":", "0", "0", ":", "0", "0", "Z", "\"",
      ",", "\"", "c", "o", "l", "o", "r", "\"", ":", "1", "6", "7", "7", "7", "2", "1",
      "5", ",", "\"", "f", "i", "e", "l", "d", "s", "\"", ":", "[", "]", "}">>

\* {"description":"d","timestamp":"today","fields":"x"}
In_BadStamp ==
    <<"{", "\"", "d", "e", "s", "c", "r", "i", "p", "t", "i", "o", "n", "\"", ":",
      "\"", "d", "\"", ",", "\"", "t", "i", "m", "e", "s", "t", "a", "m", "p", "\"",
      ":", "\"", "t", "o", "d", "a", "y", "\"", ",", "\"", "f", "i", "e", "l", "d",
      "s", "\"", ":", "\"", "x", "\"", "}">>

\* "ab"
In_StringText ==
    <<"\"", "a", "b", "\"">>

\* {"fields":[]}
In_EmptyFields ==
    <<"{", "\"", "f", "i", "e", "l", "d", "s", "\"", ":", "[", "]", "}">>

\* {"title":"T","footer":[]}
In_ArrayFooter ==
    <<"{", "\"", "t", "i", "t", "l", "e", "\"", ":", "\"", "T", "\"", ",", "\"", "f",
      "o", "o", "t", "e", "r", "\"", ":", "[", "]", "}">>

\* {"fields":[0,0,...]} with MaxFields + 1 entries
In_ManyFields ==
    <<"{", "\"", "f", "i", "e", "l", "d", "s", "\"", ":", "[">>
      \o [i \in 1..(2 * MaxFields) |-> IF i % 2 = 1 THEN "0" ELSE ","]
      \o <<"0", "]", "}">>

\* {"title":"aa..."} with MaxTitle + 1 characters in the title
In_LongTitle ==
    <<"{", "\"", "t", "i", "t", "l", "e", "\"", ":", "\"">> \o [i \in 1..(MaxTitle + 1) |-> "a"] \o <<"\"", "}">>

\* {} followed by spaces, MaxJSONLength + 1 characters in all
In_LongText ==
    <<"{", "}">> \o [i \in 1..(MaxJSONLength - 1) |-> " "]

Inputs ==
    <<In_Empty, In_Blank, In_Tab, In_OpenBrace, In_TrailingComma,
      In_NullText, In_ZeroText, In_EmptyObject, In_TitleHi, In_UrlOnly,
      In_Foo, In_BadColor, In_FieldNoName, In_FieldNull, In_FieldOdd,
      In_ImageA, In_ImageTwice, In_FooterAuthor, In_BadImages, In_OddShapes,
      In_Stamped, In_BadStamp, In_StringText, In_ManyFields, In_LongTitle,
      In_LongText, In_EmptyFields, In_ArrayFooter>>

\* JSON.parse of each text
ParsedInputs == [data \in 1..Len(Inputs) |-> JSONparse(Inputs[data])]

\* a recovery that carries on with an empty object where JSON.parse threw
JsonOfEmptyObject(parsed) == IF parsed.ok THEN parsed.v ELSE Obj(<<>>)

\* lines 30-35: json after the try, undefined where JSON.parse threw
JsonOf(parsed) == IF parsed.ok THEN parsed.v ELSE Undefined

(***************************************************************************)
(* script.js checkImage and the network                                    *)
(***************************************************************************)
CT_none == <<>>
CT_html == <<"t", "e", "x", "t", "/", "h", "t", "m", "l">>
CT_bmp  == <<"i", "m", "a", "g", "e", "/", "b", "m", "p">>
CT_png  == <<"i", "m", "a", "g", "e", "/", "p", "n", "g">>
CT_jpeg == <<"i", "m", "a", "g", "e", "/", "j", "p", "e", "g">>
CT_gif  == <<"i", "m", "a", "g", "e", "/", "g", "i", "f">>
CT_webp == <<"i", "m", "a", "g", "e", "/", "w", "e", "b", "p">>

\* what fetch(url) may settle with: a rejection, or a response of which the
\* code reads ok, status, statusText and the content-type header (hasType is
\* FALSE where headers.get returns null)
Rejected == [rejected |-> TRUE, status |-> 0, statusText |-> "", hasType |-> FALSE,
             contentType |-> CT_none]
Response(status, statusText, hasType, contentType) ==
    [rejected |-> FALSE, status |-> status, statusText |-> statusText,
     hasType |-> hasType, contentType |-> contentType]
Responses ==
    {Rejected,
     Response(404, "Not Found", TRUE, CT_html),
     Response(200, "OK", FALSE, CT_none),
     Response(200, "OK", TRUE, CT_html),
     Response(200, "OK", TRUE, CT_bmp),
     Response(200, "OK", TRUE, CT_png)}
\* response.ok
ResponseOk(r) == r.status >= 200 /\ r.status <= 299

\* text and kind are null where the image is fine
NullEntry == [text |-> NoError, kind |-> "null"]
\* `return false` of line 278: its .text and .kind read undefined
FalseResult == [text |-> NoError, kind |-> "undefined"]

\* a classification that counts a bad response as a hard error
ClassifyBadResponseAsError(response) ==
    IF response.rejected
    THEN [text |-> "could not be checked", kind |-> "warning"]
    ELSE IF ~ResponseOk(response)
    THEN [text |-> "gave bad response (" \o ToString(response.status) \o " "
                   \o response.statusText \o ")",
          kind |-> "error"]
    ELSE NullEntry

\* lines 292-315: text and kind after the fetch settled
Classify(response) ==
    IF response.rejected
    THEN [text |-> "could not be checked", kind |-> "warning"]
    ELSE IF ~ResponseOk(response)
    THEN [text |-> "gave bad response (" \o ToString(response.status) \o " "
                   \o response.statusText \o ")",
          kind |-> "warning"]
    ELSE IF ~response.hasType
            \/ ~StartsWith(response.contentType, 1, <<"i", "m", "a", "g", "e", "/">>)
    THEN [text |-> "is not an image", kind |-> "warning"]
    ELSE IF response.contentType \notin {CT_png, CT_jpeg, CT_gif, CT_webp}
    THEN [text |-> "is an unsupported image type (should be png, jpeg, gif, or webp)",
          kind |-> "warning"]
    ELSE NullEntry

\* checkedImageLinks.set(url, entry)
MapSet(map, url, entry) ==
    [u \in DOMAIN map \cup {url} |-> IF u = url THEN entry ELSE map[u]]

\* lines 318-320: store, prefix, return
Finish(url, prefix, entry, cache) ==
    [fetch |-> FALSE,
     cache |-> MapSet(cache, url, entry),
     res   |-> [text |-> IF entry.text # NoError THEN prefix \o " " \o entry.text
                         ELSE entry.text,
                kind |-> entry.kind]]

\* lines 278-291: checkImage up to its fetch; fetch is TRUE where it awaits one
checkImage(url, prefix, cache) ==
    IF ~Truthy(url) THEN [fetch |-> FALSE, cache |-> cache, res |-> FalseResult]
    ELSE IF url.t # "str"
    THEN [fetch |-> FALSE, cache |-> cache,
          res |-> [text |-> prefix \o " is not a string", kind |-> "error"]]
    ELSE IF ~isValidURL(url)
    THEN [fetch |-> FALSE, cache |-> cache,
          res |-> [text |-> prefix \o " is not a valid URL", kind |-> "error"]]
    ELSE IF url.s \in DOMAIN cache THEN Finish(url.s, prefix, cache[url.s], cache)
    ELSE [fetch |-> TRUE, cache |-> cache, res |-> FalseResult]

\* lines 292-320: checkImage from the settled fetch on
checkImageSettled(url, prefix, response, cache) ==
    Finish(url, prefix, Classify(response), cache)

(***************************************************************************)
(* script.js checkJSON as a task: it runs until it awaits a fetch          *)
(***************************************************************************)
\* lines 79-83, 93-94, 104-105, 119-125: res is handled, the block ends
HandleRes(stage, o, errors, warnings, res) ==
    [errors   |-> errors \o (IF res.kind = "error" THEN <<res.text>> ELSE <<>>),
     warnings |-> warnings \o (IF res.kind = "warning" THEN <<res.text>> ELSE <<>>)
                           \o WarningsAfter(stage, o)]

\* lines 131-191: the rest of checkJSON after the last block
Returned(json, length, errors, warnings, cache) ==
    [done     |-> TRUE,
     stage    |-> "",
     url      |-> <<>>,
     errors   |-> FilterNull(errors \o TailErrors(json, length)),
     warnings |-> FilterNull(warnings \o KeyWarnings(json)),
     cache    |-> cache]

\* the task suspended in block `stage` on fetch(url)
Awaiting(stage, url, errors, warnings, cache) ==
    [done |-> FALSE, stage |-> stage, url |-> url, errors |-> errors,
     warnings |-> warnings, cache |-> cache]

RECURSIVE RunFrom(_, _, _, _, _, _), AfterCheckImage(_, _, _, _, _, _)
\* checkJSON from the start of block i: to its return, or to the fetch it awaits
RunFrom(i, json, length, errors, warnings, cache) ==
    IF i > Len(Stages) THEN Returned(json, length, errors, warnings, cache)
    ELSE IF ~Truthy(StageValue(Stages[i], json))
    THEN RunFrom(i + 1, json, length, errors, warnings, cache)
    ELSE IF ~TypeofObject(StageValue(Stages[i], json))
    THEN RunFrom(i + 1, json, length, Append(errors, NotAnObject(Stages[i])),
                 warnings, cache)
    ELSE AfterCheckImage(i, json, length,
                         errors \o ErrorsBefore(Stages[i], StageValue(Stages[i], json)),
                         warnings,
                         checkImage(ProbeUrl(Stages[i], StageValue(Stages[i], json)),
                                    ProbePrefix(Stages[i]), cache))

\* block i once checkImage came to c: suspended on its fetch, or returned, and
\* then res is handled and the next block starts
AfterCheckImage(i, json, length, errors, warnings, c) ==
    IF c.fetch
    THEN Awaiting(Stages[i], ProbeUrl(Stages[i], StageValue(Stages[i], json)).s,
                  errors, warnings, c.cache)
    ELSE RunFrom(i + 1, json, length,
                 HandleRes(Stages[i], StageValue(Stages[i], json), errors, warnings,
                           c.res).errors,
                 HandleRes(Stages[i], StageValue(Stages[i], json), errors, warnings,
                           c.res).warnings,
                 c.cache)

\* lines 37-72 on json: the short circuit, or the checks up to the first block
checkParsed(json, length, cache) ==
    IF ~Truthy(json)
    THEN [done |-> TRUE, stage |-> "", url |-> <<>>,
          errors |-> InvalidResult.errors, warnings |-> InvalidResult.warnings,
          cache |-> cache]
    ELSE RunFrom(1, json, length, HeadErrors(json), HeadWarnings(json), cache)

\* lines 29-72: checkJSON(data) from its call; data indexes Inputs
checkJSON(data, cache) ==
    checkParsed(JsonOf(ParsedInputs[data]), Len(Inputs[data]), cache)

\* checkJSON resumed in block `stage` once fetch(url) settled with response
checkJSONResumed(data, stage, url, errors, warnings, response, cache) ==
    AfterCheckImage(StageIndex(stage), ParsedInputs[data].v, Len(Inputs[data]), errors,
                    warnings, checkImageSettled(url, ProbePrefix(stage), response, cache))

(***************************************************************************)
(* part_000 checkJSON: synchronous, without image probing.  raised is TRUE *)
(* where the call ends in an uncaught TypeError instead of a result.       *)
(***************************************************************************)
\* lines 88-108: the callback of fields.forEach, for an entry that is not null
FieldErrors0(field, index) ==
    (IF ~Truthy(field) THEN <<ordinal(index) \o " field is empty">> ELSE <<>>)
    \o <<getStringErrors(Get(field, K_name), ordinal(index) \o " field name",
                         FALSE, MaxFieldName),
         getStringErrors(Get(field, K_value), ordinal(index) \o " field value",
                         FALSE, MaxFieldValue)>>
    \o (IF Truthy(Get(field, K_inline)) /\ Get(field, K_inline).t # "bool"
        THEN <<ordinal(index) \o " field inline is not a boolean">>
        ELSE <<>>)

RECURSIVE ForEachField0(_, _)
ForEachField0(a, index) ==
    IF index >= Len(a) THEN <<>>
    ELSE FieldErrors0(a[index + 1], index) \o ForEachField0(a, index + 1)

\* lines 126-133: the result, valid where no error is listed
Result0(warnings, errors) ==
    [raised |-> FALSE, valid |-> Len(errors) = 0, warnings |-> warnings,
     errors |-> errors]

\* lines 21-133 on json
checkParsed0(json, length) ==
    LET title == Get(json, K_title)
        description == Get(json, K_description)
        url == Get(json, K_url)
        timestamp == Get(json, K_timestamp)
        color == Get(json, K_color)
        footer == Get(json, K_footer)
        image == Get(json, K_image)
        thumbnail == Get(json, K_thumbnail)
        author == Get(json, K_author)
        fields == Get(json, K_fields)
        \* lines 42-81
        errors1 ==
            <<getStringErrors(title, "Title", TRUE, MaxTitle),
              getStringErrors(description, "Description", TRUE, MaxDescription)>>
            \o (IF Truthy(url) /\ ~isValidURL0(url) THEN <<"URL is invalid">> ELSE <<>>)
            \o (IF Truthy(timestamp) /\ ~isISODate(timestamp)
                THEN <<"Timestamp is invalid">> ELSE <<>>)
            \o (IF Truthy(color) /\ ~isValidColor(color)
                THEN <<"Color is invalid">> ELSE <<>>)
            \o (IF Truthy(footer)
                THEN <<getStringErrors(Get(footer, K_text), "Footer", TRUE, MaxFooter)>>
                ELSE <<>>)
            \o (IF Truthy(footer) /\ ~isValidURL0(Get(footer, K_icon_url))
                THEN <<"Footer has an invalid icon URL">> ELSE <<>>)
            \o (IF Truthy(image) /\ ~isValidURL0(Get(image, K_url))
                THEN <<"Image has an invalid URL">> ELSE <<>>)
            \o (IF Truthy(thumbnail) /\ ~isValidURL0(Get(thumbnail, K_url))
                THEN <<"Thumbnail has an invalid URL">> ELSE <<>>)
            \o (IF Truthy(author)
                THEN <<getStringErrors(Get(author, K_name), "Author name", TRUE,
                                       MaxAuthorName)>>
                ELSE <<>>)
            \o (IF Truthy(author) /\ ~isValidURL0(Get(author, K_url))
                THEN <<"Author has an invalid URL">> ELSE <<>>)
            \o (IF Truthy(author) /\ ~isValidURL0(Get(author, K_icon_url))
                THEN <<"Author has an invalid icon URL">> ELSE <<>>)
        warnings ==
            (IF isStringEmpty(title) /\ Truthy(url)
             THEN <<"URL will not be shown if there is no title">> ELSE <<>>)
            \o (IF /\ Truthy(footer)
                   /\ isStringEmpty(Get(footer, K_text))
                   /\ Truthy(Get(footer, K_icon_url))
                THEN <<"Footer icon will not be shown without text">> ELSE <<>>)
            \o (IF /\ Truthy(author)
                   /\ isStringEmpty(Get(author, K_name))
                   /\ (Truthy(Get(author, K_url)) \/ Truthy(Get(author, K_icon_url)))
                THEN <<"Author URL and icon will not be shown without a name">>
                ELSE <<>>)
        \* lines 84-109
        iterates == Truthy(fields) /\ fields.t = "arr"
        \* line 92: field.name of a null entry
        raisesInLoop == iterates /\ \E i \in 1..Len(fields.a) : fields.a[i].t = "null"
        errors2 ==
            (IF Truthy(fields) /\ fields.t # "arr" THEN <<"Fields is not an array">>
             ELSE <<>>)
            \o (IF Truthy(fields) /\ JsGreater(Length(fields), MaxFields)
                THEN <<"Too many fields (>25)">> ELSE <<>>)
            \o (IF iterates THEN ForEachField0(fields.a, 0) ELSE <<>>)
        \* lines 112-118: the operands before fields.length
        reachesLength ==
            /\ isStringEmpty(title)
            /\ isStringEmpty(description)
            /\ (~Truthy(author) \/ isStringEmpty(Get(author, K_name)))
            /\ (~Truthy(footer) \/ isStringEmpty(Get(footer, K_text)))
            /\ ~Truthy(fields)
        \* line 118: fields.length of undefined or null
        raisesAtLength == reachesLength /\ fields.t \in {"undefined", "null"}
        errors3 ==
            (IF reachesLength /\ StrictlyZero(Length(fields))
             THEN <<"No content (title, description, author, footer, or fields).">>
             ELSE <<>>)
            \o (IF length > MaxJSONLength
                THEN <<"JSON is too long (>6000 characters)">> ELSE <<>>)
    IN  IF ~Truthy(json)
        THEN [raised |-> FALSE, valid |-> FALSE, warnings |-> <<>>,
              errors |-> <<"JSON is invalid">>]
        ELSE IF raisesInLoop \/ raisesAtLength
        THEN [raised |-> TRUE, valid |-> FALSE, warnings |-> <<>>, errors |-> <<>>]
        ELSE Result0(FilterNull(warnings), FilterNull(errors1 \o errors2 \o errors3))

\* part_000 lines 13-134: checkJSON(data); data indexes Inputs
checkJSON0(data) == checkParsed0(JsonOf(ParsedInputs[data]), Len(Inputs[data]))

\* part_000 checkJSON of each text, computed once
Results0 == [data \in 1..Len(Inputs) |-> checkJSON0(data)]

(***************************************************************************)
(* The page: the input element, the rendered report, the memo cache, the   *)
(* checkJSON tasks that await a fetch                                      *)
(***************************************************************************)
VARIABLES
    input,              \* input.value, as an index of Inputs
    display,            \* validEl, warningsEl, errorsEl, warningTextEl, errorTextEl
    checkedImageLinks,  \* the memo cache: URL -> [text, kind]
    pending,            \* the listener invocations suspended in checkJSON
    fetched,            \* history: URL -> the number of fetch(url) calls made
    events,             \* history: the number of input events so far
    latest,             \* history: how the listener of the latest event ended
    rendered            \* history: the event and text whose listener wrote display last

vars == <<input, display, checkedImageLinks, pending, fetched, events, latest, rendered>>

\* the input events of one run
MaxEvents == 2

\* input.value.replace(/[ \n]/g, '') == ''
IsBlank(text) == \A k \in 1..Len(text) : text[k] \in {" ", "\n"}

Init ==
    /\ input = 1
    /\ display = [valid |-> "", warnings |-> <<>>, errors |-> <<>>,
                  warningText |-> "", errorText |-> ""]
    /\ checkedImageLinks = <<>>
    /\ pending = {}
    /\ fetched = <<>>
    /\ events = 0
    /\ latest = [outcome |-> "none", warnings |-> <<>>, errors |-> <<>>]
    /\ rendered = [id |-> 0, data |-> 1]

\* script.js lines 333-335
Cleared == [display EXCEPT !.valid = "Valid:", !.warnings = <<>>, !.errors = <<>>]

\* script.js lines 340-347
Render(warnings, errors) ==
    [valid       |-> IF Len(errors) > 0 THEN "Valid: error.svg" ELSE "Valid: ok.svg",
     warnings    |-> warnings,
     errors      |-> errors,
     warningText |-> IF Len(warnings) > 0 THEN "initial" ELSE "",
     errorText   |-> IF Len(errors) > 0 THEN "initial" ELSE ""]

Count(map, url) == IF url \in DOMAIN map THEN map[url] ELSE 0

\* the listener invocation id, on text data, after checkJSON ran to r: it
\* renders what checkJSON returned, or stays suspended on the fetch it made
\* (newest is the number of the latest input event)
Proceed(id, data, r, others, newest) ==
    /\ checkedImageLinks' = r.cache
    /\ latest' = IF r.done /\ id = newest
                 THEN [outcome |-> "returned", warnings |-> r.warnings,
                       errors |-> r.errors]
                 ELSE IF id = newest
                 THEN [outcome |-> "awaiting", warnings |-> <<>>, errors |-> <<>>]
                 ELSE latest
    /\ IF r.done
       THEN /\ display' = Render(r.warnings, r.errors)
            /\ rendered' = [id |-> id, data |-> data]
            /\ pending' = others
            /\ fetched' = fetched
       ELSE /\ pending' = others \cup
                  {[id |-> id, data |-> data, stage |-> r.stage, url |-> r.url,
                    errors |-> r.errors, warnings |-> r.warnings,
                    settled |-> FALSE]}
            /\ fetched' = MapSet(fetched, r.url, Count(fetched, r.url) + 1)
            /\ UNCHANGED <<display, rendered>>

\* script.js lines 330-348: the listener, up to its return or its first fetch
InputEvent(data) ==
    /\ events < MaxEvents
    /\ input' = data
    /\ events' = events + 1
    /\ IF IsBlank(Inputs[data])
       THEN /\ display' = Cleared
            /\ rendered' = [id |-> events + 1, data |-> data]
            /\ latest' = [outcome |-> "cleared", warnings |-> <<>>, errors |-> <<>>]
            /\ UNCHANGED <<checkedImageLinks, pending, fetched>>
       ELSE \E r \in {checkJSON(data, checkedImageLinks)} :
               Proceed(events + 1, data, r, pending, events + 1)

\* the network settles the fetch of a suspended task: the task is queued to
\* resume (what it settled with is read when the task resumes)
NetworkSettles(p) ==
    /\ p \in pending
    /\ ~p.settled
    /\ pending' = (pending \ {p}) \cup {[p EXCEPT !.settled = TRUE]}
    /\ UNCHANGED <<input, display, checkedImageLinks, fetched, events, latest, rendered>>

\* the event loop resumes a task whose fetch has settled, with response
Resume(p, response) ==
    /\ p \in pending
    /\ p.settled
    /\ \E r \in {checkJSONResumed(p.data, p.stage, p.url, p.errors, p.warnings, response,
                                 checkedImageLinks)} :
          Proceed(p.id, p.data, r, pending \ {p}, events)
    /\ UNCHANGED <<input, events>>

Next ==
    \/ \E data \in 1..Len(Inputs) : InputEvent(data)
    \/ \E p \in pending : NetworkSettles(p)
    \/ \E p \in pending : \E response \in Responses : Resume(p, response)

Spec == Init /\ [][Next]_vars

\* the event loop runs every task that is ready; the network owes no answer
FairSpec ==
    Spec /\ WF_vars(\E p \in pending : \E response \in Responses : Resume(p, response))

(***************************************************************************)
(* The page of part_000: its listener is synchronous                       *)
(***************************************************************************)
\* part_000 lines 219-232
InputEvent0(data) ==
    /\ events < MaxEvents
    /\ input' = data
    /\ events' = events + 1
    /\ IF IsBlank(Inputs[data])
       THEN /\ display' = [display EXCEPT !.valid = "", !.warnings = <<>>, !.errors = <<>>]
            /\ rendered' = [id |-> events + 1, data |-> data]
            /\ latest' = [outcome |-> "cleared", warnings |-> <<>>, errors |-> <<>>]
       ELSE LET r == Results0[data]
            IN  IF r.raised
                THEN /\ latest' = [outcome |-> "raised", warnings |-> <<>>, errors |-> <<>>]
                     /\ UNCHANGED <<display, rendered>>
                ELSE /\ display' = [display EXCEPT
                                      !.valid = IF r.valid THEN "Yes" ELSE "No",
                                      !.warnings = r.warnings,
                                      !.errors = r.errors]
                     /\ rendered' = [id |-> events + 1, data |-> data]
                     /\ latest' = [outcome |-> "returned", warnings |-> r.warnings,
                                   errors |-> r.errors]
    /\ UNCHANGED <<checkedImageLinks, pending, fetched>>

Next0 == \E data \in 1..Len(Inputs) : InputEvent0(data)

Spec0 == Init /\ [][Next0]_vars

(***************************************************************************)
(* Properties                                                              *)
(***************************************************************************)
Has(list, msg) == \E i \in 1..Len(list) : list[i] = msg

\* the latest input event ran checkJSON (its text is not blank)
Checked == events > 0 /\ ~IsBlank(Inputs[input])

\* the value the latest text parses to, where it parses
LatestJson == ParsedInputs[input].v

RECURSIVE Complete(_, _, _)
\* the task r of checkJSON(data) run to its return, every fetch settling with response
Complete(r, data, response) ==
    IF r.done THEN r
    ELSE Complete(checkJSONResumed(data, r.stage, r.url, r.errors, r.warnings, response,
                                   r.cache),
                  data, response)

\* the errors of checkJSON(data) on an empty cache when every fetch is rejected
OfflineErrors ==
    [data \in 1..Len(Inputs) |-> Complete(checkJSON(data, <<>>), data, Rejected).errors]

\* C1: for a text that does not parse as JSON, checkJSON returns exactly
\* errors = ["JSON is invalid"] and warnings = [] (and the listener renders
\* them) in the step of the input event itself: no fetch is issued, no task
\* is left suspended and the memo cache is unchanged.
C1_InvalidJSON ==
    [][(events' = events + 1 /\ ~IsBlank(Inputs[input']) /\ ~ParsedInputs[input'].ok)
        => /\ latest' = [outcome |-> "returned", warnings |-> <<>>,
                         errors |-> <<"JSON is invalid">>]
           /\ display'.errors = <<"JSON is invalid">>
           /\ display'.warnings = <<>>
           /\ rendered'.id = events'
           /\ checkedImageLinks' = checkedImageLinks
           /\ fetched' = fetched
           /\ pending' = pending]_vars

\* C1 witness: an unparsable text was checked while the cache held entries
\* and another task was suspended
C1_Witness ==
    /\ Checked
    /\ ~ParsedInputs[input].ok
    /\ latest.outcome = "returned"
    /\ DOMAIN checkedImageLinks # {}
    /\ pending # {}

\* C1 on the page of part_000 (checked under Spec0): the same result
C1_InvalidJSON0 ==
    (Checked /\ ~ParsedInputs[input].ok)
        => latest = [outcome |-> "returned", warnings |-> <<>>,
                     errors |-> <<"JSON is invalid">>]

\* C2: whatever the interleaving of checkImage calls on one valid URL, at
\* most one fetch is ever issued for that URL.
C2_SingleFetch == \A url \in DOMAIN fetched : fetched[url] <= 1

\* C3: for every text that parses as JSON, checkJSON completes with a result
\* and never raises.
C3_NeverRaises == (Checked /\ ParsedInputs[input].ok) => latest.outcome # "raised"

\* the shapes of the data model: a footer, image, thumbnail or author is a
\* plain object (not an array), title and description are strings
WellShaped(json) ==
    /\ json.t = "obj"
    /\ \A key \in {K_title, K_description} : Get(json, key).t \in {"undefined", "str"}
    /\ \A key \in {K_footer, K_image, K_thumbnail, K_author} :
          Get(json, key).t \in {"undefined", "obj"}
    /\ Get(json, K_fields).t \in {"undefined", "arr"}

\* C3 on the page of script.js (checked under Spec): every malformed shape is
\* reported as a listed error
C3_ShapesReported ==
    (Checked /\ ParsedInputs[input].ok /\ Truthy(LatestJson)
       /\ latest.outcome = "returned" /\ ~WellShaped(LatestJson))
        => latest.errors # <<>>

\* C4: the outcome of a fetch, fresh or cached, contributes only to warnings:
\* the errors a listener renders are those checkJSON lists for the same text
\* when every fetch is rejected, whatever the network answered and whatever
\* the cache held; no classification of a response and no cache entry has
\* kind "error".
C4_NetworkOnlyWarns ==
    /\ (rendered.id > 0 /\ ~IsBlank(Inputs[rendered.data]))
          => display.errors = OfflineErrors[rendered.data]
    /\ \A url \in DOMAIN checkedImageLinks :
          checkedImageLinks[url].kind \in {"warning", "null"}
    /\ \A p \in pending : \A response \in Responses :
          /\ Classify(response).kind \in {"warning", "null"}
          /\ checkImageSettled(p.url, ProbePrefix(p.stage), response,
                               checkedImageLinks).res.kind # "error"

\* C4 witness: a pass that lists errors was rendered after a fetch of it got a
\* bad response
C4_Witness ==
    /\ Has(display.warnings, "Author icon gave bad response (404 Not Found)")
    /\ Has(display.errors, "Author has an invalid URL")

\* C5: once no pass is in flight, the displayed errors and warnings are those
\* of the latest input event (none, if the latest text was blank).
C5_LatestShown ==
    (events > 0 /\ pending = {})
        => display.errors = latest.errors /\ display.warnings = latest.warnings

\* C6: every checkJSON invocation eventually returns, even when the network
\* never answers: no task stays suspended forever.
C6_Returns == [](pending # {} => <>(pending = {}))

\* the values "empty or absent" takes
EmptyOrAbsent(v) == v.t = "undefined" \/ (v.t = "str" /\ v.s = <<>>)

\* title, description, author.name and footer.text are empty or absent and
\* fields is absent or an empty array
WithoutContent(json) ==
    /\ json.t = "obj"
    /\ EmptyOrAbsent(Get(json, K_title))
    /\ EmptyOrAbsent(Get(json, K_description))
    /\ EmptyOrAbsent(Get(Get(json, K_author), K_name))
    /\ EmptyOrAbsent(Get(Get(json, K_footer), K_text))
    /\ (Get(json, K_fields).t = "undefined" \/ Get(json, K_fields) = Arr(<<>>))

NoContent == "No content (title, description, author, footer, or fields)."

\* C7: for every JSON object without content, checkJSON returns errors that
\* contain the "No content" error.
C7_NoContentReported ==
    (Checked /\ ParsedInputs[input].ok /\ WithoutContent(LatestJson))
        => latest.outcome = "returned" /\ Has(latest.errors, NoContent)

\* C7 on the page of script.js (checked under Spec): once the pass of the
\* latest text returned, its errors contain the "No content" error, and are
\* exactly that error for an object without members of at most 6000 characters
C7_NoContentReportedAsync ==
    (Checked /\ ParsedInputs[input].ok /\ WithoutContent(LatestJson)
       /\ latest.outcome # "awaiting")
        => /\ latest.outcome = "returned"
           /\ Has(latest.errors, NoContent)
           /\ (LatestJson = Obj(<<>>) /\ Len(Inputs[input]) <= MaxJSONLength
                 => latest.errors = <<NoContent>>)

\* C8: parsing failure is the only short circuit: for a text that parses as
\* JSON the result is not {errors: ["JSON is invalid"], warnings: []}.
C8_OnlyFailureShortCircuits ==
    (Checked /\ ParsedInputs[input].ok /\ latest.outcome = "returned")
        => ~(latest.errors = <<"JSON is invalid">> /\ latest.warnings = <<>>)

\* the English ordinal of n as the claim words it: "th" whenever the tens
\* digit is 1, otherwise st, nd, rd for the units digits 1, 2, 3, else "th"
EnglishOrdinal(n) ==
    ToString(n) \o
      (IF (n \div 10) % 10 = 1 THEN "th"
       ELSE CASE n % 10 = 1 -> "st" [] n % 10 = 2 -> "nd" [] n % 10 = 3 -> "rd"
              [] OTHER -> "th")

\* the per-entry errors the entry at 0-based index i must draw at the least
EntryLabelled(field, i, errors) ==
    /\ ~Truthy(field) => Has(errors, EnglishOrdinal(i + 1) \o " field is empty")
    /\ (field.t = "obj" /\ EmptyOrAbsent(Get(field, K_name)))
          => Has(errors, EnglishOrdinal(i + 1) \o " field's name is empty")
    /\ (field.t = "obj" /\ EmptyOrAbsent(Get(field, K_value)))
          => Has(errors, EnglishOrdinal(i + 1) \o " field's value is empty")

\* C9: each per-entry error of the entry at 0-based index i of a fields array
\* is labelled with the English ordinal of i + 1.
C9_OrdinalLabels ==
    (Checked /\ ParsedInputs[input].ok /\ latest.outcome = "returned"
       /\ Get(LatestJson, K_fields).t = "arr")
        => \A k \in 1..Len(Get(LatestJson, K_fields).a) :
              EntryLabelled(Get(LatestJson, K_fields).a[k], k - 1, latest.errors)

\* C9 on the page of script.js (checked under Spec): the same statement
C9_OrdinalLabelsAsync ==
    (Checked /\ ParsedInputs[input].ok /\ latest.outcome = "returned"
       /\ Get(LatestJson, K_fields).t = "arr")
        => /\ \A k \in 1..Len(Get(LatestJson, K_fields).a) :
                 EntryLabelled(Get(LatestJson, K_fields).a[k], k - 1, latest.errors)
           /\ \A n \in 1..Len(Get(LatestJson, K_fields).a) : ordinal(n) = EnglishOrdinal(n)

\* what C10 asks of the return of getStringErrors(v, label, allowEmpty, max)
NamesDefect(v, label, allowEmpty, max) ==
    LET e == getStringErrors(v, label, allowEmpty, max)
    IN  /\ v.t \notin {"undefined", "null", "str"} => e = label \o " is not a string"
        /\ e = label \o " is empty"
              => \/ v.t \in {"undefined", "null"}
                 \/ v.t = "str" /\ v.s = <<>>
                 \/ v.t = "str" /\ ~allowEmpty /\ isStringEmpty(v)
        /\ e = label \o " is too long (>" \o ToString(max) \o " characters)"
              => v.t = "str" /\ Len(v.s) > max

\* C10: getStringErrors names the actual defect for both values of
\* allowEmpty, on every value checkJSON hands it from the latest text: the
\* title, and the name and value of each entry of fields.
C10_NamesDefect ==
    (Checked /\ ParsedInputs[input].ok /\ Truthy(LatestJson))
        => /\ NamesDefect(Get(LatestJson, K_title), "Title", TRUE, MaxTitle)
           /\ Get(LatestJson, K_fields).t = "arr"
                => \A k \in 1..Len(Get(LatestJson, K_fields).a) :
                      LET field == Get(LatestJson, K_fields).a[k]
                      IN  TypeofObject(field) /\ Truthy(field)
                            => /\ NamesDefect(Get(field, K_name), "name", FALSE,
                                              MaxFieldName)
                               /\ NamesDefect(Get(field, K_value), "value", FALSE,
                                              MaxFieldValue)

\* with a network that answers every fetch, every suspended task returns
AnsweringSpec == FairSpec /\ WF_vars(\E p \in pending : NetworkSettles(p))

====
